---- MODULE Spec2Model ----
(***************************************************************************)
(* Get-A-Gist: the retrieve / enrich / summarize pipeline.                 *)
(*                                                                         *)
(* Three entry points are modelled, one request at a time (the process is  *)
(* stateless across requests):                                             *)
(*   "mcp"      the per-result MCP tool       (unnamed/part_000, 190-302)  *)
(*   "rest"     POST /api/search              (unnamed/part_000, 354-451)  *)
(*   "combined" the combined-summary MCP tool (src/index.ts, 37-138)       *)
(*                                                                         *)
(* A text is a record [kind, cat, rank, len, blank]: the first len         *)
(* characters of the string named by (kind, cat, rank).  substring(0, n)   *)
(* of a text keeps its name and shortens len, so a truncation is visible   *)
(* as such and two different strings are never confused.                   *)
(***************************************************************************)
EXTENDS Integers, Sequences, FiniteSets, TLC

\* ------------------------------------------------------------- bounds
\* Most items the search backend returns in one response, organic and
\* news lists together.
MaxUpstream == 2
\* Most pieces (tags, characters) a markup input is built from.
MaxTokens == 3

\* ------------------------------------------------- program constants
ContentCap == 5000
MinPageLength == 100
TruncMultiplier == 5
DefaultNumResults == 5
DefaultSummaryLength == 150
MinNumResults == 1
MaxNumResults == 10
MinSummaryLength == 50
MaxSummaryLength == 500
\* 'No description available'.length
DefaultSnippetLen == 24

VARIABLES
    variant,            \* which entry point serves the request
    env,                \* Bindings: which credentials are configured
    body,               \* the request as sent (fields may be missing)
    args,               \* query / num_results / summary_length after defaults
    pc,                 \* position of the handler
    upstream,           \* the search backend's answer to this request
    searchResults,      \* SearchResult[] as normalised by the search client
    i,                  \* index of the result being processed (1-based)
    contentToSummarize, \* loop local
    pageContent,        \* loop local
    contentSource,      \* loop local (REST)
    summaries,          \* summarizedResults / summaries
    response,           \* what the handler returned
    searchCalls,        \* POSTs sent to the search backend
    fetchCalls,         \* GETs sent for result pages
    modelCalls,         \* generateText invocations
    fetchLog,           \* history: per processed result, what its fetch did
    modelLog,           \* history: per processed result, what the model did
    html,               \* Content Extractor: the markup handed to it
    nTokens,            \* Content Extractor: pieces the markup was built from
    extracted,          \* Content Extractor: what extractMainContent returned
    xpc,                \* Content Extractor: "build" | "done"
    fallbackInput,      \* truncation fallback: the content, as characters
    fallbackWords,      \* truncation fallback: summaryLength
    fallbackOnce,       \* truncation fallback: the catch's return value
    fallbackTwice,      \* ... and its return value for that value
    fpc                 \* truncation fallback: "idle" | "input" | "once" | "twice"

vars == <<variant, env, body, args, pc, upstream, searchResults, i,
          contentToSummarize, pageContent, contentSource, summaries,
          response, searchCalls, fetchCalls, modelCalls, fetchLog, modelLog,
          html, nTokens, extracted, xpc,
          fallbackInput, fallbackWords, fallbackOnce, fallbackTwice, fpc>>

pipelineVars == <<variant, env, body, args, pc, upstream, searchResults, i,
                  contentToSummarize, pageContent, contentSource, summaries,
                  response, searchCalls, fetchCalls, modelCalls, fetchLog,
                  modelLog>>

extractorVars == <<html, nTokens, extracted, xpc>>

fallbackVars == <<fallbackInput, fallbackWords, fallbackOnce, fallbackTwice, fpc>>

Min(a, b) == IF a < b THEN a ELSE b

\* --------------------------------------------------------------- texts
NoText == [kind |-> "empty", cat |-> "-", rank |-> 0, len |-> 0, blank |-> TRUE]

\* 'No description available'
DefaultSnippet ==
    [kind |-> "default", cat |-> "-", rank |-> 0, len |-> DefaultSnippetLen,
     blank |-> FALSE]

\* "No content available to summarize."
NoContentMessage ==
    [kind |-> "literal", cat |-> "-", rank |-> 0, len |-> 34, blank |-> FALSE]

\* JavaScript truthiness of a string-or-other value: only '' is falsy here.
Truthy(t) == t.kind # "empty"

\* String.prototype.substring(0, n)
Substring(t, n) ==
    IF t.len <= n THEN t
    ELSE [t EXCEPT !.len = IF n < 0 THEN 0 ELSE n]

\* ---------------------------------------------------- request inputs
\* An optional field is a set with at most one element.
Some(opt) == CHOOSE x \in opt : TRUE
OrDefault(opt, d) == IF opt = {} THEN d ELSE Some(opt)

Variants == {"mcp", "rest", "combined"}
Queries == {"", "q"}
NumResultsSent == {{}, {0}, {1}, {2}, {11}}
SummaryLengthSent == {{}, {50}}

\* ------------------------------------------------ the search backend
\* What one item of the backend's JSON can look like.  link: absent/'' |
\* a placeholder-domain URL | a fetchable URL.  snippet: absent/'' | a
\* 101-character string | ' ' | a JSON number (the backend's JSON is read
\* as any, so nothing makes a snippet a string).
ItemKinds ==
    { [link |-> "site",        snippet |-> "missing"],
      [link |-> "site",        snippet |-> "long"],
      [link |-> "",            snippet |-> "long"],
      [link |-> "example.com", snippet |-> "blank"],
      [link |-> "",            snippet |-> "number"] }

RECURSIVE SeqsUpTo(_, _)
SeqsUpTo(S, n) ==
    IF n = 0 THEN {<<>>}
    ELSE LET shorter == SeqsUpTo(S, n - 1)
         IN  shorter \cup {Append(s, x) : s \in {t \in shorter : Len(t) = n - 1}, x \in S}

ItemLists == SeqsUpTo(ItemKinds, MaxUpstream)

\* The backend's answers: a status, and an optional organic and news list.
Upstreams ==
    { [ok |-> ok, hasOrganic |-> ho, organic |-> o, hasNews |-> hn, news |-> n] :
        ok \in BOOLEAN, ho \in BOOLEAN, hn \in BOOLEAN,
        o \in ItemLists, n \in ItemLists }

UpstreamOK(u) ==
    /\ Len(u.organic) + Len(u.news) <= MaxUpstream
    /\ (~u.hasOrganic => u.organic = <<>>)
    /\ (~u.hasNews => u.news = <<>>)
    /\ (~u.ok => u.organic = <<>> /\ u.news = <<>> /\ ~u.hasOrganic /\ ~u.hasNews)

NoUpstream ==
    [ok |-> FALSE, hasOrganic |-> FALSE, organic |-> <<>>,
     hasNews |-> FALSE, news |-> <<>>]

\* Pages: the length of the visible text of the markup a GET returns.
PageLens == {100, 101, 6000}
\* How a GET can fail: the status is not a success (an early return), or
\* an exception is thrown inside the try (fetch rejects, reading the body
\* rejects).
FetchFailures == {"status", "exception"}
FetchOutcomes ==
    {[status |-> "failed", len |-> 0, failure |-> f] : f \in FetchFailures} \cup
    {[status |-> "ok", len |-> n, failure |-> "-"] : n \in PageLens}
FetchSkipped == [status |-> "skipped", len |-> 0, failure |-> "-"]

NoResponse == [kind |-> "none", cause |-> "-", results |-> <<>>]


ValidUpstreams == {u \in Upstreams : UpstreamOK(u)}

\* ------------------------------------------------ Search Provider Client
\* result.snippet || 'No description available'
NormalizeSnippet(item, cat, rank) ==
    CASE item.snippet = "missing" -> DefaultSnippet
      [] item.snippet = "long" ->
            [kind |-> "snippet", cat |-> cat, rank |-> rank, len |-> 101,
             blank |-> FALSE]
      [] item.snippet = "blank" ->
            [kind |-> "snippet", cat |-> cat, rank |-> rank, len |-> 1,
             blank |-> TRUE]
      [] item.snippet = "number" ->
            [kind |-> "number", cat |-> cat, rank |-> rank, len |-> 0,
             blank |-> FALSE]

\* One pushed SearchResult.  The title stands for the item's identity.
Normalize(item, cat, rank) ==
    [title   |-> [cat |-> cat, rank |-> rank],
     url     |-> item.link,
     snippet |-> NormalizeSnippet(item, cat, rank)]

TakeAllNormalized(list, cat, numResults) ==
    [r \in 1..Len(list) |-> Normalize(list[r], cat, r)]

\* list.slice(0, numResults), each element pushed in order
TakeNormalized(list, cat, numResults) ==
    [r \in 1..Min(numResults, Len(list)) |-> Normalize(list[r], cat, r)]

\* The results searchWeb returns for a parsed success response.
SearchWebResults(data, numResults) ==
    LET organic == IF data.hasOrganic
                   THEN TakeNormalized(data.organic, "organic", numResults)
                   ELSE <<>>
    IN  IF Len(organic) = 0 /\ data.hasNews
        THEN TakeNormalized(data.news, "news", numResults)
        ELSE organic

\* result.url && !result.url.includes('example.com')
ShouldFetch(result) == result.url # "" /\ result.url # "example.com"

\* ------------------------------------------------------------ Page Fetcher
\* extractMainContent's effect on length: the visible text, capped.
ExtractedText(result, textLen) ==
    IF textLen = 0 THEN NoText
    ELSE [kind |-> "page", cat |-> result.title.cat, rank |-> result.title.rank,
          len |-> Min(textLen, ContentCap), blank |-> FALSE]

FetchPageContentAnyStatus(result, outcome) ==
    ExtractedText(result, IF outcome.status = "ok" THEN outcome.len ELSE 101)

FetchThrowsOnException(outcome) ==
    outcome.status = "failed" /\ outcome.failure = "exception"

\* Whether fetchPageContent lets a failure out to its caller: its try
\* encloses the fetch, the status test and the body read.
FetchThrows(outcome) == FALSE

\* fetchPageContent: '' on any failure, the extracted text otherwise.
FetchPageContent(result, outcome) ==
    IF outcome.status = "ok" THEN ExtractedText(result, outcome.len) ELSE NoText

\* -------------------------------------------------------------- responses
ErrorResponse(cause) == [kind |-> "error", cause |-> cause, results |-> <<>>]
NoResultsResponse == [kind |-> "no_results", cause |-> "-", results |-> <<>>]
ResultsResponse(rs) == [kind |-> "results", cause |-> "-", results |-> rs]

\* A summary: how it was produced, and the text it was produced from / is.
ModelSummary(input) == [how |-> "model", text |-> input]
UntruncatedSummary(content, summaryLength) ==
    [how |-> "truncated", text |-> content]

\* content.substring(0, summaryLength * 5)
TruncatedSummary(content, summaryLength) ==
    [how |-> "truncated", text |-> Substring(content, summaryLength * TruncMultiplier)]
LiteralSummary == [how |-> "literal", text |-> NoContentMessage]
SnippetSummary(result) == [how |-> "snippet", text |-> result.snippet]

\* The model call's possible outcomes.  Without GEMINI_API_KEY the provider
\* cannot authenticate and generateText rejects.
ModelOutcomes == IF env.GEMINI_API_KEY THEN {"ok", "fail"} ELSE {"fail"}

\* ------------------------------------------------------------------- Init
ExtractorIdle ==
    /\ html = <<>>
    /\ nTokens = 0
    /\ extracted = <<>>
    /\ xpc = "build"

FallbackIdle ==
    /\ fallbackInput = <<>>
    /\ fallbackWords = 0
    /\ fallbackOnce = <<>>
    /\ fallbackTwice = <<>>
    /\ fpc = "idle"

Init ==
    /\ ExtractorIdle
    /\ FallbackIdle
    /\ variant \in Variants
    /\ env \in [GEMINI_API_KEY : BOOLEAN, SERPER_API_KEY : BOOLEAN]
    /\ body \in [query : Queries, num_results : NumResultsSent,
                 summary_length : SummaryLengthSent]
    /\ args = [query |-> "", num_results |-> 0, summary_length |-> 0]
    /\ pc = "entry"
    /\ upstream = NoUpstream
    /\ searchResults = <<>>
    /\ i = 0
    /\ contentToSummarize = NoText
    /\ pageContent = NoText
    /\ contentSource = "-"
    /\ summaries = <<>>
    /\ response = NoResponse
    /\ searchCalls = 0
    /\ fetchCalls = 0
    /\ modelCalls = 0
    /\ fetchLog = <<>>
    /\ modelLog = <<>>

Finish(resp) ==
    /\ response' = resp
    /\ pc' = "done"

\* ------------------------------------------------------------ entry points
\* The zod schema both MCP tools declare: query min(1); num_results
\* min(1) max(10) default(5); summary_length min(50) max(500) default(150).
SchemaAccepts(b) ==
    /\ b.query # ""
    /\ \A n \in b.num_results : MinNumResults <= n /\ n <= MaxNumResults
    /\ \A n \in b.summary_length : MinSummaryLength <= n /\ n <= MaxSummaryLength

WithDefaults(b) ==
    [query          |-> b.query,
     num_results    |-> OrDefault(b.num_results, DefaultNumResults),
     summary_length |-> OrDefault(b.summary_length, DefaultSummaryLength)]

\* The MCP server validates the arguments against the schema and then
\* calls the tool handler.
ToolCall(v) ==
    /\ pc = "entry"
    /\ variant = v
    /\ IF SchemaAccepts(body)
       THEN /\ args' = WithDefaults(body)
            /\ pc' = "search"
            /\ UNCHANGED response
       ELSE /\ Finish(ErrorResponse("validation"))
            /\ UNCHANGED args
    /\ UNCHANGED <<variant, env, body, upstream, searchResults, i,
                   contentToSummarize, pageContent, contentSource, summaries,
                   searchCalls, fetchCalls, modelCalls, fetchLog, modelLog,
                   extractorVars, fallbackVars>>

McpToolCall == ToolCall("mcp")

CombinedToolCall == ToolCall("combined")

\* app.post("/api/search"): destructure with defaults, reject a falsy query.
RestEntry ==
    /\ pc = "entry"
    /\ variant = "rest"
    /\ IF body.query = ""
       THEN /\ Finish(ErrorResponse("validation"))
            /\ UNCHANGED args
       ELSE /\ args' = WithDefaults(body)
            /\ pc' = "search"
            /\ UNCHANGED response
    /\ UNCHANGED <<variant, env, body, upstream, searchResults, i,
                   contentToSummarize, pageContent, contentSource, summaries,
                   searchCalls, fetchCalls, modelCalls, fetchLog, modelLog,
                   extractorVars, fallbackVars>>

\* ----------------------------------------------------------------- search
SearchErrorSwallowed(cause) == NoResultsResponse

\* searchWeb rethrows what it caught; the handler's outer catch turns it
\* into the error response.
OnSearchError(cause) == ErrorResponse(cause)

NeverEmpty(results) == FALSE

\* searchResults.length === 0
NoResults(results) == Len(results) = 0

\* searchWeb as called by the per-result tool and by the REST handler,
\* with the handler's reaction to what it returns or throws.
SearchWeb ==
    /\ pc = "search"
    /\ variant \in {"mcp", "rest"}
    /\ IF ~env.SERPER_API_KEY
       THEN /\ Finish(OnSearchError("config"))
            /\ UNCHANGED <<upstream, searchResults, i, searchCalls>>
       ELSE /\ searchCalls' = searchCalls + 1
            /\ \E data \in ValidUpstreams :
                 /\ upstream' = data
                 /\ IF ~data.ok
                    THEN /\ Finish(OnSearchError("search"))
                         /\ UNCHANGED <<searchResults, i>>
                    ELSE LET results == SearchWebResults(data, args.num_results)
                         IN  /\ searchResults' = results
                             /\ IF NoResults(results)
                                THEN /\ Finish(NoResultsResponse)
                                     /\ UNCHANGED i
                                ELSE /\ pc' = "loop"
                                     /\ i' = 1
                                     /\ UNCHANGED response
    /\ UNCHANGED <<variant, env, body, args, contentToSummarize, pageContent,
                   contentSource, summaries, fetchCalls, modelCalls, fetchLog,
                   modelLog,
                   extractorVars, fallbackVars>>


\* ------------------------------------------------- per-result state machine
CurrentResult == searchResults[i]

\* Start of one iteration: the loop locals as the code initialises them.
StartContent(result) == result.snippet

RestSourceKept(previous) == IF previous = "-" THEN "snippet" ELSE previous

\* let contentSource = 'snippet', declared inside the loop body
RestStartSource(previous) == "snippet"

McpUsesPageNotShorter(page, result) ==
    /\ Truthy(page)
    /\ result.snippet.kind # "number"
    /\ page.len >= result.snippet.len

\* pageContent && pageContent.length > result.snippet.length
\* (a number has no length: the comparison with undefined is false)
McpUsesPage(page, result) ==
    /\ Truthy(page)
    /\ result.snippet.kind # "number"
    /\ page.len > result.snippet.len

\* pageContent && pageContent.length > 100
RestUsesPage(page) == Truthy(page) /\ page.len > MinPageLength

\* The MCP tool's record (SummarizedResult has no contentSource).
McpRecord(result, summary) ==
    [title |-> result.title, url |-> result.url, summary |-> summary,
     originalSnippet |-> result.snippet, contentSource |-> "-",
     contentLength |-> -1, error |-> FALSE]

\* The REST handler's record on the normal path ...
RestRecord(result, summary, source, content) ==
    [title |-> result.title, url |-> result.url, summary |-> summary,
     originalSnippet |-> result.snippet, contentSource |-> source,
     contentLength |-> content.len, error |-> FALSE]

RestFallbackKeepsSource(result) ==
    [title |-> result.title, url |-> result.url,
     summary |-> SnippetSummary(result),
     originalSnippet |-> result.snippet, contentSource |-> "snippet",
     contentLength |-> -1, error |-> FALSE]

\* ... and in its per-result catch.
RestFallbackRecord(result) ==
    [title |-> result.title, url |-> result.url,
     summary |-> SnippetSummary(result),
     originalSnippet |-> result.snippet, contentSource |-> "snippet_fallback",
     contentLength |-> -1, error |-> TRUE]

\* for (const result of searchResults) { let contentToSummarize = ... }
McpBeginResult ==
    /\ pc = "loop"
    /\ variant = "mcp"
    /\ i <= Len(searchResults)
    /\ contentToSummarize' = StartContent(CurrentResult)
    /\ IF ShouldFetch(CurrentResult)
       THEN /\ pc' = "fetch"
            /\ UNCHANGED fetchLog
       ELSE /\ pc' = "summarize"
            /\ fetchLog' = Append(fetchLog, FetchSkipped)
    /\ UNCHANGED <<variant, env, body, args, upstream, searchResults, i,
                   pageContent, contentSource, summaries, response,
                   searchCalls, fetchCalls, modelCalls, modelLog,
                   extractorVars, fallbackVars>>

\* for (let i = 0; ...) { let contentToSummarize, pageContent, contentSource }
RestBeginResult ==
    /\ pc = "loop"
    /\ variant = "rest"
    /\ i <= Len(searchResults)
    /\ contentToSummarize' = StartContent(CurrentResult)
    /\ pageContent' = NoText
    /\ contentSource' = RestStartSource(contentSource)
    /\ IF ShouldFetch(CurrentResult)
       THEN /\ pc' = "fetch"
            /\ UNCHANGED fetchLog
       ELSE /\ pc' = "summarize"
            /\ fetchLog' = Append(fetchLog, FetchSkipped)
    /\ UNCHANGED <<variant, env, body, args, upstream, searchResults, i,
                   summaries, response, searchCalls, fetchCalls, modelCalls,
                   modelLog,
                   extractorVars, fallbackVars>>

\* await fetchPageContent(result.url) and the choice of content, MCP tool
McpFetch ==
    /\ pc = "fetch"
    /\ variant = "mcp"
    /\ \E outcome \in FetchOutcomes :
         /\ fetchLog' = Append(fetchLog, outcome)
         /\ IF FetchThrows(outcome)
            THEN /\ summaries' = Append(summaries,
                       McpRecord(CurrentResult, SnippetSummary(CurrentResult)))
                 /\ modelLog' = Append(modelLog, "skipped")
                 /\ i' = i + 1
                 /\ pc' = "loop"
                 /\ UNCHANGED <<pageContent, contentToSummarize>>
            ELSE LET page == FetchPageContent(CurrentResult, outcome)
                 IN  /\ pageContent' = page
                     /\ contentToSummarize' =
                            IF McpUsesPage(page, CurrentResult) THEN page
                            ELSE contentToSummarize
                     /\ pc' = "summarize"
                     /\ UNCHANGED <<summaries, modelLog, i>>
    /\ fetchCalls' = fetchCalls + 1
    /\ UNCHANGED <<variant, env, body, args, upstream, searchResults,
                   contentSource, response, searchCalls, modelCalls,
                   extractorVars, fallbackVars>>

\* await fetchPageContent(result.url) and the choice of content, REST
RestFetch ==
    /\ pc = "fetch"
    /\ variant = "rest"
    /\ \E outcome \in FetchOutcomes :
         /\ fetchLog' = Append(fetchLog, outcome)
         /\ IF FetchThrows(outcome)
            THEN /\ summaries' = Append(summaries, RestFallbackRecord(CurrentResult))
                 /\ modelLog' = Append(modelLog, "skipped")
                 /\ i' = i + 1
                 /\ pc' = "loop"
                 /\ UNCHANGED <<pageContent, contentToSummarize, contentSource>>
            ELSE LET page == FetchPageContent(CurrentResult, outcome)
                 IN  /\ pageContent' = page
                     /\ contentToSummarize' =
                            IF RestUsesPage(page) THEN page
                            ELSE contentToSummarize
                     /\ contentSource' =
                            IF RestUsesPage(page) THEN "full_page"
                            ELSE contentSource
                     /\ pc' = "summarize"
                     /\ UNCHANGED <<summaries, modelLog, i>>
    /\ fetchCalls' = fetchCalls + 1
    /\ UNCHANGED <<variant, env, body, args, upstream, searchResults,
                   response, searchCalls, modelCalls,
                   extractorVars, fallbackVars>>

\* The MCP tool's own generateText call: the summary it pushes when the
\* call resolves, and the one its per-result catch pushes when it rejects.
McpSummary(result, content, outcome) ==
    IF outcome = "ok" THEN ModelSummary(content) ELSE SnippetSummary(result)

McpSummaryErrorEscapes == FALSE

\* The try / catch (summaryError) around each result's body.
McpCatchesSummaryError == TRUE

McpSummarize ==
    /\ pc = "summarize"
    /\ variant = "mcp"
    /\ \E outcome \in ModelOutcomes :
         /\ modelLog' = Append(modelLog, outcome)
         /\ IF outcome = "ok" \/ McpCatchesSummaryError
            THEN /\ summaries' = Append(summaries,
                       McpRecord(CurrentResult,
                           McpSummary(CurrentResult, contentToSummarize, outcome)))
                 /\ i' = i + 1
                 /\ pc' = "loop"
                 /\ UNCHANGED response
            ELSE /\ Finish(ErrorResponse("model"))
                 /\ UNCHANGED <<summaries, i>>
    /\ modelCalls' = modelCalls + 1
    /\ UNCHANGED <<variant, env, body, args, upstream, searchResults,
                   contentToSummarize, pageContent, contentSource,
                   searchCalls, fetchCalls, fetchLog,
                   extractorVars, fallbackVars>>

\* !content || content.trim().length === 0
NothingToSummarize(content) == ~Truthy(content) \/ content.blank

\* generateSummary: what it returns, given how the model call ends.
GenerateSummary(content, summaryLength, outcome) ==
    IF NothingToSummarize(content) THEN LiteralSummary
    ELSE IF outcome = "ok" THEN ModelSummary(content)
    ELSE TruncatedSummary(content, summaryLength)

RaisesOnModelFailure(content, outcome) ==
    content.kind = "number" \/ outcome = "fail"

\* content.trim() on a value that is not a string
TrimThrows(content) == content.kind = "number"

\* Whether generateSummary throws to its caller.  A rejected model call is
\* caught and answered by truncation; a content that is not a string makes
\* content.trim() throw and then content.substring() throw in the catch.
GenerateSummaryRaises(content, outcome) == TrimThrows(content)

RestSummarize ==
    /\ pc = "summarize"
    /\ variant = "rest"
    /\ \E outcome \in (IF NothingToSummarize(contentToSummarize)
                           \/ TrimThrows(contentToSummarize)
                       THEN {"not_called"} ELSE ModelOutcomes) :
         /\ modelCalls' = modelCalls + (IF outcome = "not_called" THEN 0 ELSE 1)
         /\ IF GenerateSummaryRaises(contentToSummarize, outcome)
            THEN /\ summaries' = Append(summaries, RestFallbackRecord(CurrentResult))
                 /\ modelLog' = Append(modelLog, "raised")
            ELSE /\ summaries' = Append(summaries,
                       RestRecord(CurrentResult,
                           GenerateSummary(contentToSummarize,
                                           args.summary_length, outcome),
                           contentSource, contentToSummarize))
                 /\ modelLog' = Append(modelLog, outcome)
    /\ i' = i + 1
    /\ pc' = "loop"
    /\ UNCHANGED <<variant, env, body, args, upstream, searchResults,
                   contentToSummarize, pageContent, contentSource, response,
                   searchCalls, fetchCalls, fetchLog,
                   extractorVars, fallbackVars>>

\* After the loop: format and return the collected records.
Respond ==
    /\ pc = "loop"
    /\ variant \in {"mcp", "rest"}
    /\ i > Len(searchResults)
    /\ Finish(ResultsResponse(summaries))
    /\ UNCHANGED <<variant, env, body, args, upstream, searchResults, i,
                   contentToSummarize, pageContent, contentSource, summaries,
                   searchCalls, fetchCalls, modelCalls, fetchLog, modelLog,
                   extractorVars, fallbackVars>>

\* ------------------------------------------------ combined-summary variant
\* searchData.organic.slice(0, num_results) as the listed sources
CombinedSources(data, numResults) ==
    [r \in 1..Min(numResults, Len(data.organic)) |->
        [title |-> [cat |-> "organic", rank |-> r], url |-> data.organic[r].link]]

\* The handler's own POST to the search backend (no credential check).  A
\* request without a valid X-API-KEY is answered with a non-success status.
CombinedSearch ==
    /\ pc = "search"
    /\ variant = "combined"
    /\ searchCalls' = searchCalls + 1
    /\ \E data \in ValidUpstreams :
         /\ (data.ok => env.SERPER_API_KEY)
         /\ upstream' = data
         /\ IF ~data.ok
            THEN /\ Finish(ErrorResponse("search"))
                 /\ UNCHANGED searchResults
            ELSE IF ~data.hasOrganic \/ Len(data.organic) = 0
            THEN /\ Finish(NoResultsResponse)
                 /\ UNCHANGED searchResults
            ELSE /\ searchResults' = CombinedSources(data, args.num_results)
                 /\ pc' = "summarize"
                 /\ UNCHANGED response
    /\ UNCHANGED <<variant, env, body, args, i, contentToSummarize,
                   pageContent, contentSource, summaries, fetchCalls,
                   modelCalls, fetchLog, modelLog,
                   extractorVars, fallbackVars>>

OneCallPerSource(results) == Len(results)

\* How many generateText calls the handler makes for the listed results:
\* the snippets are joined into one prompt and the call is outside any loop.
CombinedModelCalls(results) == 1

\* The single generateText call over the combined snippets; a rejection
\* reaches the handler's only catch.
CombinedSummarize ==
    /\ pc = "summarize"
    /\ variant = "combined"
    /\ modelCalls' = modelCalls + CombinedModelCalls(searchResults)
    /\ \E outcome \in ModelOutcomes :
         /\ modelLog' = Append(modelLog, outcome)
         /\ IF outcome = "ok"
            THEN Finish(ResultsResponse(searchResults))
            ELSE Finish(ErrorResponse("model"))
    /\ UNCHANGED <<variant, env, body, args, upstream, searchResults, i,
                   contentToSummarize, pageContent, contentSource, summaries,
                   searchCalls, fetchCalls, fetchLog,
                   extractorVars, fallbackVars>>

PipelineNext ==
    \/ McpToolCall
    \/ CombinedToolCall
    \/ RestEntry
    \/ SearchWeb
    \/ McpBeginResult
    \/ RestBeginResult
    \/ McpFetch
    \/ RestFetch
    \/ McpSummarize
    \/ RestSummarize
    \/ Respond
    \/ CombinedSearch
    \/ CombinedSummarize

Next == PipelineNext

Spec == Init /\ [][Next]_vars


\* ------------------------------------------------------ Content Extractor
\* Markup is a sequence of one-character strings.  While it is processed,
\* every character carries the position it had in the input; a character
\* that a replacement inserted carries position 0.
Script == <<"s", "c", "r", "i", "p", "t">>
Style == <<"s", "t", "y", "l", "e">>
OpenTag(name) == <<"<">> \o name \o <<">">>
CloseTag(name) == <<"<", "/">> \o name \o <<">">>

\* The pieces markup inputs are built from: well-formed and oddly written
\* script / style tags, another tag, a character of text and a blank.
Pieces ==
    { OpenTag(Script), CloseTag(Script),
      <<"<", "/", "s", "c", "r", "i", "p", "t", " ", ">">>,
      <<"<", "/", "S", "C", "R", "I", "P", "T", ">">>,
      OpenTag(Style), CloseTag(Style),
      <<"<", "b", ">">>, <<"j">>, <<" ">> }

\* The i flag, on the letters the inputs use.
Lower(c) ==
    CASE c = "S" -> "s" [] c = "C" -> "c" [] c = "R" -> "r" [] c = "I" -> "i"
      [] c = "P" -> "p" [] c = "T" -> "t" [] OTHER -> c

Tagged(markup) == [k \in 1..Len(markup) |-> [ch |-> markup[k], pos |-> k]]
Chars(doc) == [k \in 1..Len(doc) |-> doc[k].ch]
Inserted == [ch |-> " ", pos |-> 0]

\* pat occurs in doc at k, ignoring case
MatchesAt(doc, k, pat) ==
    /\ k + Len(pat) - 1 <= Len(doc)
    /\ \A m \in 1..Len(pat) : Lower(doc[k + m - 1].ch) = pat[m]

Least(S) == IF S = {} THEN 0 ELSE CHOOSE g \in S : \A h \in S : g <= h

\* the first '>' at or after k, 0 if there is none
FirstGt(doc, k) == Least({g \in k..Len(doc) : doc[g].ch = ">"})

\* the first place at or after k where pat occurs, 0 if there is none
FirstMatch(doc, k, pat) == Least({g \in k..Len(doc) : MatchesAt(doc, g, pat)})

\* content.replace(/<name[^>]*>[\s\S]*?<\/name>/gi, '')
RECURSIVE RemoveBlocks(_, _, _)
RemoveBlocks(doc, k, name) ==
    IF k > Len(doc) THEN <<>>
    ELSE LET g == IF MatchesAt(doc, k, <<"<">> \o name)
                  THEN FirstGt(doc, k + Len(name) + 1) ELSE 0
             c == IF g = 0 THEN 0 ELSE FirstMatch(doc, g + 1, CloseTag(name))
         IN  IF c # 0 THEN RemoveBlocks(doc, c + Len(name) + 3, name)
             ELSE <<doc[k]>> \o RemoveBlocks(doc, k + 1, name)

\* content.replace(/<[^>]*>/g, ' ')
RECURSIVE StripTags(_, _)
StripTags(doc, k) ==
    IF k > Len(doc) THEN <<>>
    ELSE LET g == IF doc[k].ch = "<" THEN FirstGt(doc, k + 1) ELSE 0
         IN  IF g # 0 THEN <<Inserted>> \o StripTags(doc, g + 1)
             ELSE <<doc[k]>> \o StripTags(doc, k + 1)

IsSpace(e) == e.ch \in {" ", "\n", "\t"}

\* content.replace(/\s+/g, ' ')
RECURSIVE CollapseSpaces(_, _)
CollapseSpaces(doc, k) ==
    IF k > Len(doc) THEN <<>>
    ELSE IF ~IsSpace(doc[k]) THEN <<doc[k]>> \o CollapseSpaces(doc, k + 1)
    ELSE IF k > 1 /\ IsSpace(doc[k - 1]) THEN CollapseSpaces(doc, k + 1)
    ELSE <<Inserted>> \o CollapseSpaces(doc, k + 1)

\* .trim()
Trim(doc) ==
    LET solid == {k \in 1..Len(doc) : ~IsSpace(doc[k])}
    IN  IF solid = {} THEN <<>>
        ELSE SubSeq(doc, Least(solid),
                    CHOOSE g \in solid : \A h \in solid : h <= g)

\* extractMainContent, on position-carrying characters
ExtractMainContent(markup) ==
    LET noScript == RemoveBlocks(Tagged(markup), 1, Script)
        noStyle  == RemoveBlocks(noScript, 1, Style)
        noTags   == StripTags(noStyle, 1)
        content  == Trim(CollapseSpaces(noTags, 1))
    IN  SubSeq(content, 1, Min(Len(content), ContentCap))

\* The Content Extractor on its own: markup is put together piece by
\* piece and then extracted.
AppendPiece ==
    /\ xpc = "build"
    /\ nTokens < MaxTokens
    /\ \E piece \in Pieces : html' = html \o piece
    /\ nTokens' = nTokens + 1
    /\ UNCHANGED <<extracted, xpc, pipelineVars, fallbackVars>>

Extract ==
    /\ xpc = "build"
    /\ extracted' = ExtractMainContent(html)
    /\ xpc' = "done"
    /\ UNCHANGED <<html, nTokens, pipelineVars, fallbackVars>>

InitExtract ==
    /\ Init
    /\ variant = "rest"
    /\ env = [GEMINI_API_KEY |-> TRUE, SERPER_API_KEY |-> TRUE]
    /\ body = [query |-> "q", num_results |-> {}, summary_length |-> {}]

NextExtract ==
    \/ AppendPiece
    \/ Extract

SpecExtract == InitExtract /\ [][NextExtract]_vars

\* ---------------------------------------------- Summarizer: truncation law
\* generateSummary's catch, on the characters of its content argument.
\* summaryLength values the schema admits, at and next to its limits.
FallbackWords == {50, 51, 150, 499, 500}

\* Content lengths at and around the cut summaryLength * 5.
FallbackLengths(n) ==
    {0, 1, n * TruncMultiplier - 1, n * TruncMultiplier,
     n * TruncMultiplier + 1, 2 * n * TruncMultiplier}

FallbackPatterns == {<<"a">>, <<"a", "b">>, <<" ", "x", "y">>}

\* The content of the given length that repeats the pattern.
Periodic(pattern, len) ==
    [k \in 1..len |-> pattern[((k - 1) % Len(pattern)) + 1]]

FallbackContents(n) ==
    {Periodic(p, len) : p \in FallbackPatterns, len \in FallbackLengths(n)}

\* content.substring(summaryLength * 5)
SubstringFrom(content, summaryLength) ==
    SubSeq(content, Min(Len(content), summaryLength * TruncMultiplier) + 1,
           Len(content))

\* content.substring(0, summaryLength * 5)
TruncateChars(content, summaryLength) ==
    SubSeq(content, 1, Min(Len(content), summaryLength * TruncMultiplier))

\* The model call rejected: the catch returns the truncation.
TruncateOnce ==
    /\ fpc = "input"
    /\ fallbackOnce' = TruncateChars(fallbackInput, fallbackWords)
    /\ fpc' = "once"
    /\ UNCHANGED <<fallbackInput, fallbackWords, fallbackTwice,
                   pipelineVars, extractorVars>>

\* generateSummary called on what it returned, the model rejecting again.
TruncateAgain ==
    /\ fpc = "once"
    /\ fallbackTwice' = TruncateChars(fallbackOnce, fallbackWords)
    /\ fpc' = "twice"
    /\ UNCHANGED <<fallbackInput, fallbackWords, fallbackOnce,
                   pipelineVars, extractorVars>>

InitFallback ==
    /\ ExtractorIdle
    /\ variant = "rest"
    /\ env = [GEMINI_API_KEY |-> FALSE, SERPER_API_KEY |-> TRUE]
    /\ body = [query |-> "q", num_results |-> {}, summary_length |-> {}]
    /\ args = [query |-> "", num_results |-> 0, summary_length |-> 0]
    /\ pc = "entry"
    /\ upstream = NoUpstream
    /\ searchResults = <<>>
    /\ i = 0
    /\ contentToSummarize = NoText
    /\ pageContent = NoText
    /\ contentSource = "-"
    /\ summaries = <<>>
    /\ response = NoResponse
    /\ searchCalls = 0
    /\ fetchCalls = 0
    /\ modelCalls = 0
    /\ fetchLog = <<>>
    /\ modelLog = <<>>
    /\ fallbackWords \in FallbackWords
    /\ fallbackInput \in FallbackContents(fallbackWords)
    /\ fallbackOnce = <<>>
    /\ fallbackTwice = <<>>
    /\ fpc = "input"

NextFallback ==
    \/ TruncateOnce
    \/ TruncateAgain

SpecFallback == InitFallback /\ [][NextFallback]_vars

\* ================================================================= claims
PerResult == variant \in {"mcp", "rest"}

\* What the backend made available to this request: its organic list, or
\* its news list when it sent no organic item.
AvailableCat(u) == IF u.hasOrganic /\ Len(u.organic) > 0 THEN "organic" ELSE "news"
AvailableList(u) == IF AvailableCat(u) = "organic" THEN u.organic ELSE u.news

Answered == pc = "done" /\ response.kind \in {"results", "no_results"}

\* C1: a valid request for k results that the per-result tool or the REST
\* handler answers carries exactly min(k, available) records, and record j
\* is the record of the backend's j-th item (same list, rank j, its link),
\* whatever the fetches and model calls of the results did.
C1_CountAndRankOrder ==
    (PerResult /\ Answered /\ SchemaAccepts(body)) =>
        /\ Len(response.results) =
               Min(OrDefault(body.num_results, DefaultNumResults),
                   Len(AvailableList(upstream)))
        /\ \A j \in 1..Len(response.results) :
               /\ response.results[j].title =
                      [cat |-> AvailableCat(upstream), rank |-> j]
               /\ response.results[j].url = AvailableList(upstream)[j].link

\* C1 witness: two records returned in rank order although the first
\* result's model call and the second result's page fetch both failed.
C1_Witness ==
    /\ PerResult /\ Answered /\ SchemaAccepts(body)
    /\ Len(response.results) = 2
    /\ modelLog[1] = "fail"
    /\ fetchLog[2].status = "failed"
    /\ response.results[2].title.rank = 2

SomeStepFailed ==
    \/ \E j \in 1..Len(fetchLog) : fetchLog[j].status = "failed"
    \/ \E j \in 1..Len(modelLog) : modelLog[j] = "fail"

C3_MissingCredentialIsConfigError ==
    ((~env.GEMINI_API_KEY \/ ~env.SERPER_API_KEY) /\ pc # "entry"
        /\ ~(pc = "done" /\ response.cause = "validation")) =>
        /\ searchCalls = 0 /\ fetchCalls = 0 /\ modelCalls = 0
        /\ (pc = "done" => response = ErrorResponse("config"))

\* C4: in the MCP tool and the REST entry, num_results 0 or missing is
\* rejected as invalid with no network call made, and the search backend
\* is never asked for, nor the response given, more than 10 results.
C4_NumResultsValidated ==
    PerResult =>
        /\ (body.num_results \in {{}, {0}}) =>
               /\ searchCalls = 0 /\ fetchCalls = 0 /\ modelCalls = 0
               /\ (pc = "done" => response = ErrorResponse("validation"))
        /\ (searchCalls > 0) => args.num_results <= MaxNumResults
        /\ Len(response.results) <= MaxNumResults

SearchFailed == ~env.SERPER_API_KEY \/ (searchCalls > 0 /\ ~upstream.ok)

\* C5: at most one search call is made per request; once the search has
\* failed (non-success status) the request is over with an error response;
\* a request whose search failed or whose search credential is absent ends
\* in an error with no result entry, no page fetch and no model call.
C5_SearchFailureIsFatal ==
    /\ searchCalls <= 1
    /\ (searchCalls > 0 /\ ~upstream.ok) => pc = "done"
    /\ (SearchFailed /\ pc = "done") =>
           /\ response.kind = "error"
           /\ response.results = <<>>
           /\ summaries = <<>>
    /\ SearchFailed => fetchCalls = 0 /\ modelCalls = 0

\* C5 witness: the backend answered the one search call with a
\* non-success status and the request ended in the search error.
C5_Witness ==
    /\ pc = "done" /\ searchCalls = 1 /\ ~upstream.ok /\ env.SERPER_API_KEY
    /\ response = ErrorResponse("search")

\* The page fetcher returned '' for result j.
FetchCameBackEmpty(j) ==
    /\ fetchLog[j].status # "skipped"
    /\ (fetchLog[j].status = "failed" \/ fetchLog[j].len = 0)

\* The summary s was made from the snippet of the result and nothing else.
FromSnippetOnly(s, result) ==
    \/ s.how \in {"model", "snippet"} /\ s.text = result.snippet
    \/ s.how = "truncated" /\ s.text.kind = result.snippet.kind
          /\ s.text.cat = result.snippet.cat /\ s.text.rank = result.snippet.rank
    \/ s.how = "literal" /\ result.snippet.blank

BackendHadNothing ==
    searchCalls > 0 /\ upstream.ok /\ Len(upstream.organic) = 0 /\ Len(upstream.news) = 0

\* C7: once the backend has answered with no organic and no news item, the
\* request is over with the non-error "no results" response, which has no
\* entry, and no page fetch or model call was made; the per-result loop is
\* never entered.
C7_NoResultsShortCircuit ==
    BackendHadNothing =>
        /\ pc = "done"
        /\ response = NoResultsResponse
        /\ summaries = <<>> /\ fetchLog = <<>> /\ modelLog = <<>>
        /\ fetchCalls = 0 /\ modelCalls = 0

\* C7 witness: a request answered "no results" after an empty backend answer.
C7_Witness == BackendHadNothing /\ pc = "done" /\ response.kind = "no_results"

\* The record of one result as the per-result state machine of the spec
\* yields it from that result's own snippet, fetch outcome and model
\* outcome alone.
OwnPage(result, fetch) ==
    IF fetch.status = "ok" /\ fetch.len > 0
    THEN [kind |-> "page", cat |-> result.title.cat, rank |-> result.title.rank,
          len |-> Min(fetch.len, ContentCap), blank |-> FALSE]
    ELSE NoText

OwnUsesPage(v, result, fetch) ==
    /\ fetch.status = "ok"
    /\ IF v = "mcp"
       THEN /\ result.snippet.kind # "number"
            /\ OwnPage(result, fetch).len > result.snippet.len
       ELSE OwnPage(result, fetch).len > MinPageLength

OwnContent(v, result, fetch) ==
    IF OwnUsesPage(v, result, fetch) THEN OwnPage(result, fetch) ELSE result.snippet

OwnSummary(v, result, fetch, model, n) ==
    LET content == OwnContent(v, result, fetch)
    IN  CASE model = "ok" -> [how |-> "model", text |-> content]
          [] model = "not_called" -> [how |-> "literal", text |-> NoContentMessage]
          [] model = "fail" /\ v = "mcp" -> [how |-> "snippet", text |-> result.snippet]
          [] model = "raised" -> [how |-> "snippet", text |-> result.snippet]
          [] model = "fail" /\ v = "rest" ->
                [how |-> "truncated",
                 text |-> [content EXCEPT !.len = Min(content.len, n * TruncMultiplier)]]

\* C8: every emitted record j is determined by result j's own snippet,
\* fetch outcome and model outcome (so no other result's failure changes
\* it), and the records emitted so far are one per processed result.
C8_PerResultIsolation ==
    PerResult =>
        /\ (pc \in {"loop", "fetch", "summarize"}) =>
               Len(summaries) = i - 1
        /\ (pc = "done" /\ response.kind = "results") =>
               Len(summaries) = Len(searchResults)
        /\ \A j \in 1..Len(summaries) :
               /\ summaries[j].title = searchResults[j].title
               /\ summaries[j].summary =
                      OwnSummary(variant, searchResults[j], fetchLog[j],
                                 modelLog[j], args.summary_length)
               /\ (variant = "rest") =>
                      summaries[j].contentSource =
                          IF modelLog[j] = "raised" THEN "snippet_fallback"
                          ELSE IF OwnUsesPage("rest", searchResults[j], fetchLog[j])
                          THEN "full_page" ELSE "snippet"

\* C8 witness: of two fetched pages the first failed and the second came
\* back long; the response has the two records in order, the first from
\* its snippet and the second from its full page.
C8_Witness ==
    /\ variant = "rest" /\ pc = "done" /\ Len(response.results) = 2
    /\ fetchLog[1].status = "failed" /\ fetchLog[2].status = "ok"
    /\ response.results[1].contentSource = "snippet"
    /\ response.results[2].contentSource = "full_page"
    /\ response.results[2].title.rank = 2

ModelFailedFor(j) == j <= Len(modelLog) /\ modelLog[j] = "fail"

EndsTagName(e) == e.ch \in {" ", "/", ">", "\n", "\t"}

IsTagNamed(doc, k, prefix) ==
    /\ MatchesAt(doc, k, prefix)
    /\ k + Len(prefix) <= Len(doc)
    /\ EndsTagName(doc[k + Len(prefix)])

StartsTag(doc, k) ==
    /\ doc[k].ch = "<"
    /\ k < Len(doc)
    /\ Lower(doc[k + 1].ch) \in {"/", "s", "b", "j"}

RECURSIVE BlockText(_, _, _)
BlockText(doc, k, block) ==
    IF k > Len(doc) THEN {}
    ELSE IF block = <<>>
    THEN IF StartsTag(doc, k)
         THEN LET g == FirstGt(doc, k + 1)
              IN  IF g = 0 THEN {}
                  ELSE BlockText(doc, g + 1,
                         IF IsTagNamed(doc, k, <<"<">> \o Script) THEN Script
                         ELSE IF IsTagNamed(doc, k, <<"<">> \o Style) THEN Style
                         ELSE <<>>)
         ELSE BlockText(doc, k + 1, block)
    ELSE IF IsTagNamed(doc, k, <<"<", "/">> \o block)
         THEN LET g == FirstGt(doc, k + 1)
              IN  IF g = 0 THEN {} ELSE BlockText(doc, g + 1, <<>>)
         ELSE {k} \cup BlockText(doc, k + 1, block)

\* C9: whatever the markup, closed or not, the extracted text is at most
\* 5000 characters long and holds no character of the markup that stood
\* inside a script or style block.
C9_ExtractDropsScriptAndStyle ==
    (xpc = "done") =>
        /\ Len(extracted) <= ContentCap
        /\ \A k \in 1..Len(extracted) :
               extracted[k].pos \notin BlockText(Tagged(html), 1, <<>>)


Fetched(j) == fetchLog[j].status # "skipped"

\* C12: the page fetcher never throws to its caller.  Whatever made the
\* GET fail (transport error, non-success status, body read), the caller
\* received '' and went on to the summarization step of that result; and
\* exactly one GET was sent per fetched result (no retry).
C12_FetcherNeverThrows ==
    PerResult =>
        /\ fetchCalls = Cardinality({j \in 1..Len(fetchLog) : Fetched(j)})
        /\ \A j \in 1..Len(fetchLog) :
               fetchLog[j].status = "failed" =>
                   \/ pc = "summarize" /\ i = j /\ pageContent = NoText
                   \/ j <= Len(modelLog) /\ modelLog[j] # "skipped"

\* C12 witness: a body-read failure after which the caller stands at the
\* summarization step with '' as the page content.
C12_Witness ==
    /\ PerResult /\ pc = "summarize"
    /\ fetchLog[i].status = "failed" /\ fetchLog[i].failure = "exception"
    /\ pageContent = NoText /\ fetchCalls = 1

\* C14: the combined-summary tool sends one search request and makes one
\* model call per invocation, however many results it lists, and it never
\* fetches a page.
C14_CombinedOneSearchOneModel ==
    variant = "combined" =>
        /\ fetchCalls = 0 /\ fetchLog = <<>>
        /\ searchCalls = (IF pc \in {"entry", "search"}
                             \/ (pc = "done" /\ response.cause = "validation")
                          THEN 0 ELSE 1)
        /\ modelCalls = (IF pc = "done" /\ upstream.ok /\ Len(upstream.organic) > 0
                         THEN 1 ELSE 0)
        /\ modelCalls = Len(modelLog)

\* C14 witness: a combined answer listing two sources, made with one model
\* call.
C14_Witness ==
    /\ variant = "combined" /\ pc = "done" /\ response.kind = "results"
    /\ Len(response.results) = 2
    /\ searchCalls = 1 /\ modelCalls = 1 /\ fetchCalls = 0

\* The length of the text the page fetcher returned for result j.
ReturnedLen(j) ==
    IF fetchLog[j].status = "ok" THEN Min(fetchLog[j].len, ContentCap) ELSE 0

\* Whether the returned text must replace the snippet of result j.
MustReplace(j) ==
    /\ ReturnedLen(j) > 0
    /\ IF variant = "mcp"
       THEN /\ searchResults[j].snippet.kind # "number"
            /\ ReturnedLen(j) > searchResults[j].snippet.len
       ELSE ReturnedLen(j) > 100

BackendAnswered == searchCalls > 0 /\ upstream.ok /\ pc # "search"

\* C17: in every variant, once the backend has answered: if it sent no
\* organic item but some news items, the search results are the first
\* num_results news items; "no results" is declared only when it sent
\* neither; and when it sent an organic item, no result is a news item.
C17_NewsFallbackEveryVariant ==
    BackendAnswered =>
        /\ (Len(upstream.organic) = 0 /\ Len(upstream.news) > 0) =>
               /\ Len(searchResults) = Min(args.num_results, Len(upstream.news))
               /\ \A r \in 1..Len(searchResults) :
                      /\ searchResults[r].title = [cat |-> "news", rank |-> r]
                      /\ searchResults[r].url = upstream.news[r].link
        /\ (pc = "done" /\ response.kind = "no_results") =>
               Len(upstream.organic) = 0 /\ Len(upstream.news) = 0
        /\ Len(upstream.organic) > 0 =>
               \A r \in 1..Len(searchResults) :
                   searchResults[r].title.cat = "organic"

\* The text of result j that went to its summarization step was empty or
\* whitespace-only.
BlankContent(j) == ~MustReplace(j) /\ searchResults[j].snippet.blank

\* C13: on both per-result paths (the MCP tool and REST), a result whose
\* text to summarize was empty or whitespace-only has the fixed literal
\* message as its summary, and the model was not invoked for it.
C13_BlankContentShortCircuits ==
    PerResult =>
        \A j \in 1..Len(summaries) :
            BlankContent(j) =>
                /\ summaries[j].summary = LiteralSummary
                /\ modelLog[j] = "not_called"

\* Summarization of result j raised into the per-result catch: in the MCP
\* tool its generateText call rejected; in REST generateSummary was given
\* a content that is not a string.
SummarizationRaised(j) ==
    IF variant = "mcp" THEN modelLog[j] = "fail"
    ELSE ~MustReplace(j) /\ searchResults[j].snippet.kind = "number"

\* Every result after j is processed and emitted.
LaterResultsProcessed(j) ==
    IF pc = "done"
    THEN response.kind = "results" /\ Len(response.results) = Len(searchResults)
    ELSE pc \in {"loop", "fetch", "summarize"} /\ i > j

C11_TruncationIdempotent ==
    /\ fpc \in {"once", "twice"} =>
           /\ Len(fallbackOnce) =
                  Min(Len(fallbackInput), fallbackWords * TruncMultiplier)
           /\ \A k \in 1..Len(fallbackOnce) : fallbackOnce[k] = fallbackInput[k]
    /\ fpc = "twice" => fallbackTwice = fallbackOnce

\* C11 witness: a content longer than the cut was shortened by the first
\* truncation and left as it was by the second.
C11_Witness ==
    /\ fpc = "twice"
    /\ fallbackWords = 500
    /\ Len(fallbackInput) > Len(fallbackOnce)
    /\ Len(fallbackOnce) = 2500
    /\ fallbackTwice = fallbackOnce

====
